---- MODULE Spec2Model ----
(***************************************************************************)
(* Model of gisn.py (GLOBAL INTELLIGENCE SYNTHESIS NETWORK v0.9.0) and of  *)
(* its benchmark tests/stress_1M.py.                                       *)
(*                                                                         *)
(* Numbers: the program computes on IEEE doubles; the model computes on    *)
(* exact rationals <<n, d>> in lowest terms (d > 0).  Decimal literals of  *)
(* the source (0.15, 1.5, 0.85 ...) are the rationals they denote.         *)
(* Rounding is left out: sums "equal to 1" are equal within the doubles'   *)
(* tolerance, and labels listed equally often get the same additions in    *)
(* the same order, so ties of the model are ties of the doubles too.       *)
(***************************************************************************)
EXTENDS Integers, Sequences, FiniteSets, TLC

\* ------------------------------------------------------------------ bounds
\* Longest options list a caller passes in Spec.
MaxLen == 5
\* Longest options list a caller passes in SpecIdem.
MaxLenIdem == 2
\* Number of benchmark instances run by the stress loop (N_INSTANCES scaled down).
MaxInstances == 3
\* Number of players per benchmark instance (PLAYERS_PER_INSTANCE scaled down).
MaxPlayers == 2

\* ------------------------------------------------------- exact rationals
RECURSIVE GCD(_, _)
GCD(a, b) == IF b = 0 THEN a ELSE GCD(b, a % b)

Abs(x) == IF x < 0 THEN -x ELSE x

\* n/d in lowest terms with a positive denominator
R(n, d) ==
    LET s == IF d < 0 THEN -1 ELSE 1
        g == GCD(Abs(n), Abs(d))
    IN  <<(s * n) \div g, (s * d) \div g>>

Zero == <<0, 1>>
One == <<1, 1>>
RAdd(x, y) == R(x[1] * y[2] + y[1] * x[2], x[2] * y[2])
RSub(x, y) == R(x[1] * y[2] - y[1] * x[2], x[2] * y[2])
RMul(x, y) == R(x[1] * y[1], x[2] * y[2])
RDiv(x, y) == R(x[1] * y[2], x[2] * y[1])
RLt(x, y) == x[1] * y[2] < y[1] * x[2]
RLe(x, y) == x[1] * y[2] <= y[1] * x[2]

\* square root of a rational that is a perfect square (np.std's sqrt)
ISqrt(n) == CHOOSE k \in 0..n : k * k = n
RSqrt(x) == <<ISqrt(x[1]), ISqrt(x[2])>>

RECURSIVE RSumSeq(_)
RSumSeq(s) == IF s = <<>> THEN Zero ELSE RAdd(Head(s), RSumSeq(Tail(s)))

\* np.mean over a non-empty list
NpMean(s) == RDiv(RSumSeq(s), <<Len(s), 1>>)

\* np.std: population standard deviation
NpStd(s) ==
    LET m == NpMean(s)
        sq == [k \in 1..Len(s) |-> RMul(RSub(s[k], m), RSub(s[k], m))]
    IN  RSqrt(NpMean(sq))

\* ------------------------------------------------------------ the catalog
\* class Domain(Enum), in declaration order (the iteration order of `for dom in Domain`)
DomainOrder ==
    << "game_theory", "behavioral_psychology", "systems_thinking", "economics",
       "ethics", "physics", "complexity_science", "network_theory",
       "information_theory", "evolutionary_biology" >>

Domain == {DomainOrder[k] : k \in 1..Len(DomainOrder)}

\* a value a caller can pass as `domain` that is no member of the enum
NonCatalogDomain == "astrology"

_initialize_domain_weights ==
    [dom \in Domain |->
        CASE dom = "game_theory" -> R(15, 100)
          [] dom = "behavioral_psychology" -> R(12, 100)
          [] dom = "systems_thinking" -> R(13, 100)
          [] dom = "economics" -> R(11, 100)
          [] dom = "ethics" -> R(10, 100)
          [] dom = "physics" -> R(9, 100)
          [] dom = "complexity_science" -> R(10, 100)
          [] dom = "network_theory" -> R(8, 100)
          [] dom = "information_theory" -> R(7, 100)
          [] dom = "evolutionary_biology" -> R(5, 100)]

\* ------------------------------------------------------------- dictionaries
\* A Python dict with string keys: its items <<key, value>> in insertion order.
EmptyDict == <<>>

SeqToSet(s) == {s[k] : k \in 1..Len(s)}

\* list(dct): the keys in insertion order
DictKeys(dct) == [k \in 1..Len(dct) |-> dct[k][1]]

DictHas(dct, k) == \E n \in 1..Len(dct) : dct[n][1] = k

\* dct[k] for a key the dict holds
DictAt(dct, k) == dct[CHOOSE n \in 1..Len(dct) : dct[n][1] = k][2]

\* dct.get(k, default)
DictGet(dct, k, default) == IF DictHas(dct, k) THEN DictAt(dct, k) ELSE default

\* dct[k] = v: a held key keeps its place, a new key goes last
DictSet(dct, k, v) ==
    IF DictHas(dct, k)
    THEN [dct EXCEPT ![CHOOSE n \in 1..Len(dct) : dct[n][1] = k] = <<k, v>>]
    ELSE Append(dct, <<k, v>>)

\* --------------------------------------------------------------- analyses
_game_theory_analysis(d) ==
    [domain |-> "game_theory",
     insights |-> <<"Nash equilibrium", "Coalition stability">>,
     predictions |-> [k \in 1..Len(d.options) |-> <<d.options[k], R(1, Len(d.options))>>],
     confidence |-> R(85, 100),
     interaction_effects |-> [x \in {"behavioral_psychology"} |-> R(9, 10)]]

\* the stub: whatever `domain` is, the game-theory record is returned
analyze_domain(decision, domain) ==
    [kind |-> "return", value |-> _game_theory_analysis(decision)]

\* ------------------------------------------------------- context weighting
\* mutant of ContextRule: the rule fires for every scale but the default one
ContextRuleNotPersonal(d, wdict) ==
    IF d.impact_scale # "personal"
    THEN [wdict EXCEPT !["systems_thinking"] = RMul(@, R(15, 10))]
    ELSE wdict

\* lines 129-130: the one rule applied to the copy of the base weights
ContextRule(d, wdict) ==
    IF d.impact_scale = "global"
    THEN [wdict EXCEPT !["systems_thinking"] = RMul(@, R(15, 10))]
    ELSE wdict

\* sum(w.values())
SumValues(wdict) == RSumSeq([k \in 1..Len(DomainOrder) |-> wdict[DomainOrder[k]]])

\* mutant of CopyWeights: w = self.domain_weights, an alias, so that the rule's
\* in-place scaling lands in the attribute
AliasWeights(self_domain_weights, wl) == wl

\* line 128: w = self.domain_weights.copy(); what the attribute holds once the
\* rule has updated w (wl) in place: the copy keeps it as it was
CopyWeights(self_domain_weights, wl) == self_domain_weights

\* mutant of Normalize: the total is the base weights' total, taken before the rule
NormalizeByBaseTotal(wl) ==
    LET total == SumValues(_initialize_domain_weights)
    IN  [k \in Domain |-> RDiv(wl[k], total)]

\* lines 131-132: total = sum(w.values()); {k: v / total for k, v in w.items()}
Normalize(wl) ==
    LET total == SumValues(wl)
    IN  [k \in Domain |-> RDiv(wl[k], total)]

\* Returns the local w after the rule, the returned normalized dict, and what
\* self.domain_weights is after the call (w is a copy, so the attribute is untouched).
_calculate_context_weights(d, self_domain_weights) ==
    LET wl == ContextRule(d, self_domain_weights)
    IN  [w |-> wl,
         ret |-> Normalize(wl),
         self_domain_weights |-> CopyWeights(self_domain_weights, wl)]

\* ------------------------------------------------------------- reduction
\* mutant of ScoreUpdate: the new term overwrites the held score
ScoreUpdateOverwrite(old, prob, wt, conf) == RMul(RMul(prob, wt), conf)

\* line 139: scores[opt] = scores.get(opt, 0) + prob * w * a.confidence
ScoreUpdate(old, prob, wt, conf) == RAdd(old, RMul(RMul(prob, wt), conf))

\* lines 138-139: the inner loop over one analysis' predictions;
\* scores.get(opt, 0) is the held value of opt, or 0 for a key not yet held
RECURSIVE AccumulatePredictions(_, _, _, _)
AccumulatePredictions(scores, preds, wt, conf) ==
    IF preds = <<>>
    THEN scores
    ELSE LET opt == Head(preds)[1]
             prob == Head(preds)[2]
         IN  IF DictHas(scores, opt)
             THEN AccumulatePredictions(
                      DictSet(scores, opt, ScoreUpdate(DictAt(scores, opt), prob, wt, conf)),
                      Tail(preds), wt, conf)
             ELSE AccumulatePredictions(
                      DictSet(scores, opt, ScoreUpdate(Zero, prob, wt, conf)),
                      Tail(preds), wt, conf)

\* lines 136-139: the outer loop over analyses.items(), in enum order from index k
RECURSIVE AccumulateDomains(_, _, _, _)
AccumulateDomains(scores, analyses, weights_, k) ==
    IF k > Len(DomainOrder)
    THEN scores
    ELSE LET dom == DomainOrder[k]
             a == analyses[dom]
         IN  AccumulateDomains(
                 AccumulatePredictions(scores, a.predictions, weights_[dom], a.confidence),
                 analyses, weights_, k + 1)

\* max(dct, key=dct.get) continued at item `from` with the best key so far:
\* a later key replaces the best one only when its value is strictly larger
RECURSIVE MaxScan(_, _, _)
MaxScan(dct, best, from) ==
    IF from > Len(dct)
    THEN best
    ELSE MaxScan(dct, IF RLt(DictAt(dct, best), dct[from][2]) THEN dct[from][1] ELSE best,
                 from + 1)

\* mutant of MaxScan: a later key replaces the best one also on a tie
RECURSIVE MaxScanLast(_, _, _)
MaxScanLast(dct, best, from) ==
    IF from > Len(dct)
    THEN best
    ELSE MaxScanLast(dct, IF RLe(DictAt(dct, best), dct[from][2]) THEN dct[from][1] ELSE best,
                     from + 1)

\* mutant of PyMax: ties go to the key encountered last
PyMaxLast(dct) ==
    IF dct = <<>>
    THEN [kind |-> "raise", exception |-> "ValueError"]
    ELSE [kind |-> "return", value |-> MaxScanLast(dct, dct[1][1], 2)]

\* mutant of PyMax: next(iter(scores)), the first key whatever the scores
PyMaxFirstKey(dct) ==
    IF dct = <<>>
    THEN [kind |-> "raise", exception |-> "ValueError"]
    ELSE [kind |-> "return", value |-> dct[1][1]]

\* mutant of PyMax: max(scores, key=scores.get, default=None)
PyMaxDefault(dct) ==
    IF dct = <<>>
    THEN [kind |-> "return", value |-> "None"]
    ELSE [kind |-> "return", value |-> MaxScan(dct, dct[1][1], 2)]

\* max(scores, key=scores.get): ValueError on an empty dict
PyMax(dct) ==
    IF dct = <<>>
    THEN [kind |-> "raise", exception |-> "ValueError"]
    ELSE [kind |-> "return", value |-> MaxScan(dct, dct[1][1], 2)]

Confidences(analyses) == [k \in 1..Len(DomainOrder) |-> analyses[DomainOrder[k]].confidence]

_perform_synthesis(analyses, weights_) ==
    LET scores == AccumulateDomains(EmptyDict, analyses, weights_, 1)
        best == PyMax(scores)
    IN  IF best.kind = "raise"
        THEN best
        ELSE [kind |-> "return",
              value |-> [recommended_option |-> best.value,
                         option_scores |-> scores,
                         synthesis_confidence |-> NpMean(Confidences(analyses))]]

_generate_coordination_protocol(decision_, analyses, synthesis) ==
    [implementation_phases |->
        << [phase |-> "foundation", focus |-> "stakeholder_alignment", duration |-> "20%"],
           [phase |-> "coordination", focus |-> "synchronized_action", duration |-> "60%"],
           [phase |-> "optimization", focus |-> "continuous_improvement", duration |-> "20%"] >>]

_calculate_confidence_metrics(analyses) ==
    LET confs == Confidences(analyses)
    IN  [average_confidence |-> NpMean(confs),
         synthesis_reliability |-> RMul(NpMean(confs), RSub(One, NpStd(confs)))]

\* The whole call: its locals, its outcome (a returned dict or a raised
\* exception) and self.domain_weights after it.
synthesize_decision(self_domain_weights, decision_) ==
    LET analyses == [dom \in Domain |-> analyze_domain(decision_, dom).value]
        cw == _calculate_context_weights(decision_, self_domain_weights)
        synthesis == _perform_synthesis(analyses, cw.ret)
    IN  [decision |-> decision_,
         domain_analyses |-> analyses,
         w |-> cw.w,
         weights |-> cw.ret,
         self_domain_weights |-> cw.self_domain_weights,
         outcome |->
            IF synthesis.kind = "raise"
            THEN synthesis
            ELSE [kind |-> "return",
                  value |-> [decision_synthesis |-> synthesis.value,
                             coordination_protocol |->
                                 _generate_coordination_protocol(decision_, analyses, synthesis.value),
                             confidence_metrics |-> _calculate_confidence_metrics(analyses)]]]

\* a value of the constraints parameter: None (the default) or a dict
NoneArg == [given |-> FALSE]
DictArg(m) == [given |-> TRUE, map |-> m]

submit_decision(self_domain_weights, context, stakeholders, options, constraints, impact_scale, uncertainty_level) ==
    synthesize_decision(
        self_domain_weights,
        [context |-> context,
         stakeholders |-> stakeholders,
         options |-> options,
         constraints |-> IF constraints.given THEN constraints.map ELSE <<>>,
         timeframe |-> 30,
         impact_scale |-> impact_scale,
         uncertainty_level |-> uncertainty_level])

\* ------------------------------------------------------------- the state
VARIABLES
    domain_weights,   \* self.domain_weights of the network's engine
    op,               \* the entry point that has just returned or raised ("idle": none)
    args,             \* the arguments it was called with
    decision,         \* the Decision it worked on
    domain_analyses,  \* synthesize_decision's local dict of the ten analyses
    w,                \* _calculate_context_weights' local w before normalization
    weights,          \* the normalized weights it returned
    outcome,          \* what the call returned or raised
    remembered,       \* an earlier submit_decision call: its arguments and outcome
    globalSince,      \* a "global" submit_decision call ran after the remembered one
    pc,               \* stress(): position in the benchmark
    i,                \* stress(): number of instances done
    adoptions         \* stress(): the adoptions list

vars == <<domain_weights, op, args, decision, domain_analyses, w, weights, outcome,
          remembered, globalSince, pc, i, adoptions>>

\* a local that holds nothing (no call is at its return)
None == [none |-> TRUE]

\* ---------------------------------------------------------------- inputs
Labels == {"A", "B", "C"}

\* the option labels of the repeated calls
LabelsIdem == {"A", "B"}

RECURSIVE SeqsUpTo(_, _)
SeqsUpTo(S, n) ==
    IF n = 0
    THEN {<<>>}
    ELSE LET shorter == SeqsUpTo(S, n - 1)
         IN  shorter \cup {Append(s, x) : s \in {t \in shorter : Len(t) = n - 1}, x \in S}

ImpactScales == {"global", "personal", "regional"}

ConstraintArgs == {NoneArg, DictArg(<<>>)}

Stakeholders == <<"alice", "bob">>

\* ------------------------------------------------------------------ Init
\* GlobalCoordinationNetwork(): the engine holds the base weights, nothing ran yet
InitCommon ==
    /\ domain_weights = _initialize_domain_weights
    /\ op = "idle"
    /\ args = None
    /\ decision = None
    /\ domain_analyses = None
    /\ w = None
    /\ weights = None
    /\ outcome = None
    /\ remembered = [set |-> FALSE]
    /\ globalSince = FALSE
    /\ i = 0
    /\ adoptions = <<>>

Init == InitCommon /\ pc = "library"

\* ---------------------------------------------------------------- actions
\* the effect of one synthesis call on the engine, and the call's locals at its end
Ran(call) ==
    /\ domain_weights' = call.self_domain_weights
    /\ decision' = call.decision
    /\ domain_analyses' = call.domain_analyses
    /\ w' = call.w
    /\ weights' = call.weights
    /\ outcome' = call.outcome

\* a caller invokes net.submit_decision(...) and the call runs to its end
SubmitDecision ==
    /\ op = "idle"
    /\ \E options \in SeqsUpTo(Labels, MaxLen), impact_scale \in ImpactScales,
          constraints \in ConstraintArgs :
        /\ Ran(submit_decision(domain_weights, "ctx", Stakeholders, options, constraints, impact_scale, R(3, 10)))
        /\ op' = "submit_decision"
        /\ args' = [options |-> options, constraints |-> constraints,
                    impact_scale |-> impact_scale]
    /\ UNCHANGED <<remembered, globalSince, pc, i, adoptions>>

\* a caller invokes engine.analyze_domain(decision, domain) directly
AnalyzeDomain ==
    /\ op = "idle"
    /\ \E options \in SeqsUpTo(Labels, MaxLen), domain \in Domain \cup {NonCatalogDomain} :
        LET d == [context |-> "ctx", stakeholders |-> Stakeholders, options |-> options,
                  constraints |-> <<>>, timeframe |-> 30, impact_scale |-> "personal",
                  uncertainty_level |-> R(3, 10)]
        IN  /\ op' = "analyze_domain"
            /\ args' = [decision |-> d, domain |-> domain]
            /\ decision' = d
            /\ outcome' = analyze_domain(d, domain)
    /\ UNCHANGED <<domain_weights, domain_analyses, w, weights,
                   remembered, globalSince, pc, i, adoptions>>

\* the caller has the result (or the exception); the call's frame is gone
Return ==
    /\ op \in {"submit_decision", "analyze_domain"}
    /\ op' = "idle"
    /\ args' = None
    /\ decision' = None
    /\ domain_analyses' = None
    /\ w' = None
    /\ weights' = None
    /\ outcome' = None
    /\ UNCHANGED <<domain_weights, remembered, globalSince, pc, i, adoptions>>

Next == SubmitDecision \/ AnalyzeDomain \/ Return

Spec == Init /\ [][Next]_vars

\* ------------------------------------------- repeated calls on one network
\* submit_decision again (constraints left at its default); the caller may
\* keep this call's arguments and outcome to compare a later call with
SubmitDecisionAgain ==
    /\ op = "idle"
    /\ \E options \in SeqsUpTo(LabelsIdem, MaxLenIdem), impact_scale \in ImpactScales :
        LET a == [options |-> options, constraints |-> NoneArg,
                  impact_scale |-> impact_scale]
            call == submit_decision(domain_weights, "ctx", Stakeholders, options, NoneArg, impact_scale, R(3, 10))
        IN  /\ Ran(call)
            /\ op' = "submit_decision"
            /\ args' = a
            /\ \E keep \in BOOLEAN :
                /\ remembered' = IF keep
                                 THEN [set |-> TRUE, args |-> a, outcome |-> call.outcome]
                                 ELSE remembered
                /\ globalSince' = IF keep THEN FALSE
                                  ELSE globalSince \/ (remembered.set /\ impact_scale = "global")
    /\ UNCHANGED <<pc, i, adoptions>>

NextIdem == SubmitDecisionAgain \/ Return

SpecIdem == Init /\ [][NextIdem]_vars

\* ------------------------------------------------- tests/stress_1M.py
\* random.uniform(0.25, 0.35), in thousandths
MpcrValues == 250..350

\* f"{mpcr:.2f}": the rate rounded to hundredths
FormatMpcr(m) == (m + 5) \div 10

InitStress == InitCommon /\ pc = "for"

\* lines 21-31: the next instance's Decision is built
StressBuildDecision ==
    /\ pc = "for"
    /\ i < MaxInstances
    /\ \E mpcr \in MpcrValues :
        decision' = [context |-> <<"Public-Goods Game MPCR=", FormatMpcr(mpcr)>>,
                     stakeholders |-> [j \in 1..MaxPlayers |-> <<"player_", j - 1>>],
                     options |-> <<"contribute 0", "contribute full">>,
                     constraints |-> [x \in {"mpcr"} |-> R(mpcr, 1000)],
                     timeframe |-> 1,
                     impact_scale |-> "global",
                     uncertainty_level |-> R(2, 10)]
    /\ pc' = "call"
    /\ op' = "idle"
    /\ UNCHANGED <<domain_weights, args, domain_analyses, w, weights, outcome,
                   remembered, globalSince, i, adoptions>>

\* lines 32-38: the engine is called and the score of "contribute full" recorded
StressSynthesize ==
    /\ pc = "call"
    /\ LET call == synthesize_decision(domain_weights, decision)
       IN  /\ Ran(call)
           /\ IF call.outcome.kind = "raise"
              THEN /\ pc' = call.outcome.exception
                   /\ UNCHANGED <<i, adoptions>>
              ELSE /\ pc' = "for"
                   /\ i' = i + 1
                   /\ adoptions' = Append(adoptions,
                          DictGet(call.outcome.value.decision_synthesis.option_scores,
                                  "contribute full", Zero))
    /\ op' = "synthesize_decision"
    /\ UNCHANGED <<args, remembered, globalSince>>

\* lines 40-52: the assertions; wall-clock and latency are the machine's
StressAssertions ==
    /\ pc = "for"
    /\ i = MaxInstances
    /\ \E elapsed_ok \in BOOLEAN, latency_ok \in BOOLEAN :
        pc' = CASE ~elapsed_ok -> "AssertionError: timeout"
                [] elapsed_ok /\ RLt(NpMean(adoptions), R(70, 100)) ->
                       "AssertionError: adoption too low"
                [] elapsed_ok /\ ~RLt(NpMean(adoptions), R(70, 100)) /\ ~latency_ok ->
                       "AssertionError: latency"
                [] OTHER -> "PASSED"
    /\ UNCHANGED <<domain_weights, op, args, decision, domain_analyses, w, weights,
                   outcome, remembered, globalSince, i, adoptions>>

NextStress == StressBuildDecision \/ StressSynthesize \/ StressAssertions

SpecStress == InitStress /\ [][NextStress]_vars

\* ================================================================ claims
\* the submit_decision call that has just ended
Submitted == op = "submit_decision"
Returned == Submitted /\ outcome.kind = "return"
Options == decision.options
Synthesis == outcome.value.decision_synthesis
Scores == Synthesis.option_scores
Recommended == Synthesis.recommended_option
ScoreKeys == SeqToSet(DictKeys(Scores))
Occurrences(opt) == {n \in 1..Len(Options) : Options[n] = opt}
FirstOccurrence(opt) == CHOOSE n \in Occurrences(opt) : \A m \in Occurrences(opt) : n <= m
MaxKeys == {k \in ScoreKeys : \A x \in ScoreKeys : RLe(DictAt(Scores, x), DictAt(Scores, k))}

\* C1: for every decision with at least one option, the call returns, the
\* recommended option is a key of option_scores, and no key has a strictly
\* larger score.
C1_RecommendedIsMaxKey ==
    (Submitted /\ Options # <<>>) =>
        /\ outcome.kind = "return"
        /\ Recommended \in ScoreKeys
        /\ \A k \in ScoreKeys : ~RLt(DictAt(Scores, Recommended), DictAt(Scores, k))

\* C1 witness: a returned recommendation that is not the first option and beats another key
C1_Witness ==
    /\ Returned
    /\ Recommended # Options[1]
    /\ \E k \in ScoreKeys : RLt(DictAt(Scores, k), DictAt(Scores, Recommended))

\* C2: in the benchmark (options "contribute 0" / "contribute full", global
\* impact, mpcr in [0.25, 0.35]) the score of "contribute full", averaged over
\* the instances run, is at least 0.70.
C2_MeanAdoptionAtLeast70 ==
    (pc = "for" /\ i = MaxInstances) => RLe(R(70, 100), NpMean(adoptions))

\* C3: analyze_domain(decision, D) returns the record of D itself, so one
\* synthesis call works on ten analyses with ten distinct domain identifiers.
C3_AnalysisIsOfItsDomain ==
    /\ Submitted => \A D \in Domain : domain_analyses[D].domain = D
    /\ (op = "analyze_domain" /\ args.domain \in Domain) =>
           (outcome.kind = "return" /\ outcome.value.domain = args.domain)

\* sum of a weight dict over the catalog, for the claims
RECURSIVE SumOver(_, _)
SumOver(f, S) ==
    IF S = {} THEN Zero
    ELSE LET x == CHOOSE y \in S : TRUE IN RAdd(f[x], SumOver(f, S \ {x}))

\* C4: whatever the impact scale, the context weights are non-negative, cover
\* all ten domains and sum to 1.
C4_WeightsNormalized ==
    Submitted =>
        /\ DOMAIN weights = Domain
        /\ Cardinality(DOMAIN weights) = 10
        /\ \A k \in Domain : RLe(Zero, weights[k])
        /\ SumOver(weights, Domain) = One

\* C4 witness: a global call, whose weights differ from the base weights and still sum to 1
C4_Witness ==
    /\ Submitted
    /\ decision.impact_scale = "global"
    /\ weights # _initialize_domain_weights
    /\ SumOver(weights, Domain) = One

\* C5: exactly one rule: "global" multiplies the Systems-Thinking base weight by
\* 1.5 before normalization and leaves every other weight at its base value;
\* any other impact scale leaves all ten at their base values.
C5_OnlyGlobalRule ==
    Submitted =>
        \A k \in Domain :
            w[k] = IF decision.impact_scale = "global" /\ k = "systems_thinking"
                   THEN RMul(_initialize_domain_weights[k], R(3, 2))
                   ELSE _initialize_domain_weights[k]

\* C5 witness: a global call with Systems-Thinking at 0.195 before normalization
C5_Witness ==
    /\ Submitted
    /\ decision.impact_scale = "global"
    /\ w["systems_thinking"] = R(195, 1000)
    /\ w["ethics"] = R(10, 100)

\* C6: no call changes the engine's base weights, and a call with the same
\* arguments as an earlier one has the same outcome, whatever ran in between.
C6_Idempotent ==
    /\ domain_weights = _initialize_domain_weights
    /\ (Submitted /\ remembered.set /\ args = remembered.args) =>
           outcome = remembered.outcome

\* C6 witness: a non-global call repeated after a global call in between
C6_Witness ==
    /\ Returned
    /\ remembered.set
    /\ globalSince
    /\ args = remembered.args
    /\ args.impact_scale # "global"
    /\ Len(args.options) >= 2
    /\ outcome = remembered.outcome

\* C7 as stated: an empty options sequence fails with an InputValidationError.
C7_EmptyOptionsInputValidationError ==
    (Submitted /\ Options = <<>>) =>
        (outcome.kind = "raise" /\ outcome.exception = "InputValidationError")

\* C7 amended: an empty options sequence fails with the ValueError that max()
\* raises on the empty score map; no result and no default recommendation.
C7_EmptyOptionsValueError ==
    (Submitted /\ Options = <<>>) =>
        outcome = [kind |-> "raise", exception |-> "ValueError"]

\* C7 witness: a call with no options has raised
C7_Witness ==
    /\ Submitted
    /\ args.options = <<>>
    /\ outcome.kind = "raise"

\* C8: analyze_domain asked for a domain outside the catalog fails with an
\* UnsupportedDomainError and returns no record.
C8_NonCatalogDomainRejected ==
    (op = "analyze_domain" /\ args.domain \notin Domain) =>
        (outcome.kind = "raise" /\ outcome.exception = "UnsupportedDomainError")

\* what the predictions of one domain add to a label's score
DomainPart(dom, opt) ==
    LET a == domain_analyses[dom]
    IN  RSumSeq([n \in 1..Len(a.predictions) |->
                    IF a.predictions[n][1] = opt
                    THEN RMul(RMul(a.predictions[n][2], weights[dom]), a.confidence)
                    ELSE Zero])

\* the labels at least one domain predicts
PredictedLabels ==
    UNION {{domain_analyses[dom].predictions[n][1] :
                n \in 1..Len(domain_analyses[dom].predictions)} : dom \in Domain}

\* C9: with at least one option, the keys of option_scores are exactly the
\* labels some domain predicts, which are the distinct labels of options; each
\* label has one key, every score is non-negative, and a label's score is the
\* sum over every domain and every occurrence of the label.
C9_ScoreKeysAndAccumulation ==
    (Submitted /\ Options # <<>>) =>
        /\ outcome.kind = "return"
        /\ ScoreKeys = PredictedLabels
        /\ ScoreKeys = SeqToSet(Options)
        /\ Len(Scores) = Cardinality(ScoreKeys)
        /\ \A k \in ScoreKeys :
            /\ RLe(Zero, DictAt(Scores, k))
            /\ DictAt(Scores, k) =
                   RSumSeq([n \in 1..Len(DomainOrder) |-> DomainPart(DomainOrder[n], k)])

\* C9 witness: a label listed twice beside another label
C9_Witness ==
    /\ Returned
    /\ \E k \in ScoreKeys : Cardinality(Occurrences(k)) >= 2
    /\ Cardinality(ScoreKeys) >= 2

\* C10: among the options with the maximum score the recommended one is the
\* one whose first occurrence in options is earliest; pairwise distinct
\* options recommend options[0], a single option recommends itself.
C10_TieGoesToFirstEncountered ==
    Returned =>
        /\ Recommended \in MaxKeys
        /\ \A k \in MaxKeys : FirstOccurrence(Recommended) <= FirstOccurrence(k)
        /\ Cardinality(SeqToSet(Options)) = Len(Options) => Recommended = Options[1]
        /\ Len(Options) = 1 => Recommended = Options[1]

\* C10 witness: two labels tie at the maximum behind a lower label listed first
C10_Witness ==
    /\ Returned
    /\ Cardinality(MaxKeys) >= 2
    /\ Options[1] \notin MaxKeys
    /\ \E k \in MaxKeys : k # Recommended /\ FirstOccurrence(Recommended) < FirstOccurrence(k)

====
